---- MODULE Spec2Model ----
(***************************************************************************)
(* niiRender: a WebGPU volume renderer.                                    *)
(*   src/main/code.js       the volume renderer (ingestion, upload,        *)
(*                          orbit camera, uniform packing, ray marching)   *)
(*   src/unnamed/part_000   the sphere-density demo (same camera, a        *)
(*                          simpler ray-marching kernel)                   *)
(*                                                                         *)
(* Numbers.  JavaScript values are records [t, v]: t = "num" with the      *)
(* value v, t = "nan" (NaN), t = "undef" (undefined) or t = "arr" (an      *)
(* array of values).  Angles are kept in micro-radians, so that the drag   *)
(* handler's x * 0.005 is exact on integers; the orbit radius and the      *)
(* target are kept in milli-units, and radius * (1 + deltaY * 0.001) is    *)
(* rounded down to the milli-unit.  The units of the fragment shaders are  *)
(* given with them.                                                        *)
(* Library calls whose numeric result no claim depends on (Math.sin,       *)
(* Math.cos, mat4.perspective, mat4.lookAt, mat4.multiply and the          *)
(* elements of mat4.invert) are kept as applications: tuples of the        *)
(* function's name and its arguments.                                      *)
(***************************************************************************)
EXTENDS Integers, Sequences, FiniteSets, TLC

VARIABLES
    \* ---- the session of src/main/code.js ----
    pc,           \* "fetching" | "parsed" | "device" | "running" | "aborted"
    text,         \* the Form-A file behind the URL: a sequence of lines
    canvasSize,   \* <<clientWidth, clientHeight>> of the canvas element
    parsed,       \* what parseVoxelTxt resolved with: [voxel, dims, affine]
    texture,      \* the 3D texture: [size |-> dims] once created, else NoTexture
    queue,        \* calls issued on device.queue, in order
    uniformBuffer,\* the 40 floats last written to the uniform buffer
    derived,      \* the last execution of render: what it read and derived
    frames,       \* executions of render that submitted a draw
    rafPending,   \* requestAnimationFrame(render) is outstanding
    listening,    \* the canvas listeners are registered
    cameraTheta, cameraPhi, cameraRadius, cameraTarget,
    dragging, lastX, lastY,
    \* ---- the two ingestion routines, side by side ----
    volume,       \* the logical volume both files describe
    layout,       \* how the Form-A file breaks its sections into lines
    outA, outB,   \* what parseVoxelTxt / loadVolumeJSON returned
    \* ---- one invocation of a fragment shader ----
    kernel,       \* "main" (code.js) | "sphere" (part_000)
    ray,          \* [origin, dir]: origin in 1/10000, dir in tenths
    uni,          \* the uniforms the invocation reads
    stepIdx,      \* the number of loop iterations done
    sum,          \* the accumulated contributions, in the kernel's unit
    lastStep      \* what the last iteration did

vars == <<pc, text, canvasSize, parsed, texture, queue, uniformBuffer, derived,
          frames, rafPending, listening, cameraTheta, cameraPhi, cameraRadius,
          cameraTarget, dragging, lastX, lastY, volume, layout, outA, outB,
          kernel, ray, uni, stepIdx, sum, lastStep>>

sessionVars == <<pc, text, canvasSize, parsed, texture, queue, uniformBuffer,
                 derived, frames, rafPending, listening>>
cameraVars == <<cameraTheta, cameraPhi, cameraRadius, cameraTarget,
                dragging, lastX, lastY>>
ingestVars == <<volume, layout, outA, outB>>
kernelVars == <<kernel, ray, uni, stepIdx, sum, lastStep>>

----------------------------------------------------------------------------
(* Bounds of the model.                                                    *)

\* each of depth, height, width of a volume ranges over 1..MaxDim
MaxDim == 2
\* render runs at most MaxFrames times in a session
MaxFrames == 2
\* azimuth is followed while |theta - pi/2| <= ThetaSpan radians
ThetaSpan == 2

----------------------------------------------------------------------------
(* JavaScript values.                                                      *)

Num(n) == [t |-> "num", v |-> n]
NaN == [t |-> "nan", v |-> 0]
Undefined == [t |-> "undef", v |-> 0]
Arr(items) == [t |-> "arr", v |-> items]
IsNum(x) == x.t = "num"

Range(s) == {s[i] : i \in 1..Len(s)}

\* arr[i] of a JavaScript array (i counted from 0): undefined past the end
JsIndex(arr, i) == IF i + 1 <= Len(arr) THEN arr[i + 1] ELSE Undefined

\* Math.fround on an integer: 24 bits of mantissa, round to nearest, ties to even
RECURSIVE Ulp(_, _)
Ulp(a, u) == IF a < 16777216 * u THEN u ELSE Ulp(a, 2 * u)

FroundAbs(a) ==
    LET u == Ulp(a, 1)
        q == a \div u
        r == a % u
    IN IF 2 * r > u \/ (2 * r = u /\ q % 2 = 1) THEN (q + 1) * u ELSE q * u

Fround(n) == IF n < 0 THEN 0 - FroundAbs(0 - n) ELSE FroundAbs(n)

\* the element conversion of new Float32Array(array)
\* (ToNumber of an array goes through its string: [] is 0, [x] is x, the
\* rest holds a comma and is NaN)
RECURSIVE ToFloat32(_)
ToFloat32(x) ==
    CASE x.t = "num" -> Num(Fround(x.v))
      [] x.t = "arr" -> IF x.v = <<>> THEN Num(0)
                        ELSE IF Len(x.v) = 1 /\ x.v[1].t \in {"num", "arr"}
                             THEN ToFloat32(x.v[1])
                             ELSE NaN
      [] OTHER -> NaN

Float32Array(arr) == [i \in 1..Len(arr) |-> ToFloat32(arr[i])]

----------------------------------------------------------------------------
(* Form A: text of lines.  A line is a section marker ("--name--") or a    *)
(* data line; a data line is kept as the tokens that split(' ') finds in   *)
(* it: a numeric literal, the empty string (two adjacent blanks, or an     *)
(* empty line) or a word that is no number.                                *)

MarkerLine(name) == [marker |-> name, toks |-> <<>>]
DataLine(toks) == [marker |-> "", toks |-> toks]
NumTok(n) == [k |-> "num", v |-> n]
EmptyTok == [k |-> "empty", v |-> 0]
WordTok == [k |-> "word", v |-> 0]

\* Number(token)
Number(tok) ==
    CASE tok.k = "num" -> Num(tok.v)
      [] tok.k = "empty" -> Num(0)
      [] OTHER -> NaN

\* s.trim().split(' ') on the tokens of s: blanks at either end go, and the
\* empty string splits into one empty token
RECURSIVE TrimLeft(_)
TrimLeft(toks) ==
    IF toks # <<>> /\ Head(toks) = EmptyTok THEN TrimLeft(Tail(toks)) ELSE toks

RECURSIVE TrimRight(_)
TrimRight(toks) ==
    IF toks # <<>> /\ toks[Len(toks)] = EmptyTok
    THEN TrimRight(SubSeq(toks, 1, Len(toks) - 1))
    ELSE toks

TrimSplit(toks) ==
    LET t == TrimRight(TrimLeft(toks))
    IN IF t = <<>> THEN <<EmptyTok>> ELSE t

MapNumber(toks) == [i \in 1..Len(toks) |-> Number(toks[i])]

\* the tokens of a data line; an empty line holds the empty string
LineTokens(line) == IF line.toks = <<>> THEN <<EmptyTok>> ELSE line.toks

\* the for-loop of parseVoxelTxt over lines[i..]
RECURSIVE ParseLines(_, _, _, _, _, _)
ParseLines(lines, i, section, shape, affineValues, voxelLine) ==
    IF i > Len(lines)
    THEN [shape |-> shape, affineValues |-> affineValues, voxelLine |-> voxelLine]
    ELSE LET line == lines[i]
         IN IF line.marker # ""
            THEN ParseLines(lines, i + 1, line.marker, shape, affineValues, voxelLine)
            ELSE CASE section = "--header--" ->
                        ParseLines(lines, i + 1, section,
                                   shape \o MapNumber(TrimSplit(LineTokens(line))),
                                   affineValues, voxelLine)
                   [] section = "--affine--" ->
                        ParseLines(lines, i + 1, section, shape,
                                   affineValues \o MapNumber(TrimSplit(LineTokens(line))),
                                   voxelLine)
                   [] section = "--voxel--" ->
                        ParseLines(lines, i + 1, section, shape, affineValues,
                                   voxelLine \o TrimSplit(LineTokens(line)))
                   [] OTHER ->
                        ParseLines(lines, i + 1, section, shape, affineValues, voxelLine)

\* dims = [shape[1], shape[2], shape[0]]
ReorderDims(shape) == <<JsIndex(shape, 1), JsIndex(shape, 2), JsIndex(shape, 0)>>

parseVoxelTxt(lines) ==
    LET p == ParseLines(lines, 1, "", <<>>, <<>>, <<>>)
    IN [voxel |-> Float32Array(MapNumber(TrimSplit(p.voxelLine))),
        dims |-> ReorderDims(p.shape),
        affine |-> Float32Array(p.affineValues)]

----------------------------------------------------------------------------
(* Form B: a JSON document {shape, affine, voxel_data}.                    *)

\* Array.prototype.flat(depth) on the items of an array
RECURSIVE Flat(_, _)
Flat(items, depth) ==
    IF items = <<>> THEN <<>>
    ELSE LET x == Head(items)
         IN (IF x.t = "arr" /\ depth > 0 THEN Flat(x.v, depth - 1) ELSE <<x>>)
            \o Flat(Tail(items), depth)

\* (a loader that flattens voxel_data by one level only)
loadVolumeJSONFlatOnce(json) ==
    [voxel |-> Float32Array(Flat(json.voxel_data.v, 1)),
     dims |-> ReorderDims(json.shape.v),
     affine |-> Float32Array(Flat(json.affine.v, 1))]

loadVolumeJSON(json) ==
    [voxel |-> Float32Array(Flat(json.voxel_data.v, 3)),
     dims |-> ReorderDims(json.shape.v),
     affine |-> Float32Array(Flat(json.affine.v, 1))]

----------------------------------------------------------------------------
(* Logical volumes and their two encodings.  A volume has a shape          *)
(* <<d, h, w>>, 16 affine values in row-major order and d*h*w samples       *)
(* listed depth-major, width fastest.                                      *)

IdentityAffine == <<1, 0, 0, 0,  0, 1, 0, 0,  0, 0, 1, 0,  0, 0, 0, 1>>
ScaledAffine == <<2, 0, 0, 1,  0, 2, 0, 0,  0, 0, 4, 0,  0, 0, 0, 1>>
SingularAffine == <<1, 0, 0, 0,  0, 1, 0, 0,  0, 0, 0, 0,  0, 0, 0, 1>>

\* the k-th sample of a volume; the first is no float32 (it rounds to 2^24)
SampleValue(k) == IF k = 1 THEN 16777217 ELSE k

MakeVolume(d, h, w, aff) ==
    [shape |-> <<d, h, w>>, affine |-> aff,
     samples |-> [k \in 1..(d * h * w) |-> SampleValue(k)]]

\* the sample of vol at depth z, height y, width x (counted from 0)
SampleAt(vol, z, y, x) ==
    vol.samples[1 + x + vol.shape[3] * (y + vol.shape[2] * z)]

Volumes ==
    {MakeVolume(d, h, w, aff) :
        d \in 1..MaxDim, h \in 1..MaxDim, w \in 1..MaxDim,
        aff \in {IdentityAffine, ScaledAffine}}

\* s cut into lines of n tokens
RECURSIVE Chunk(_, _)
Chunk(s, n) ==
    IF Len(s) <= n THEN <<DataLine(s)>>
    ELSE <<DataLine(SubSeq(s, 1, n))>> \o Chunk(SubSeq(s, n + 1, Len(s)), n)

NumToks(s) == [i \in 1..Len(s) |-> NumTok(s[i])]

\* a Form-A text: the three sections in file order, each present or not,
\* the affine and voxel tokens broken into lines as lay says
FormAText(shapeToks, affineToks, voxelToks, present, lay) ==
    (IF "header" \in present
     THEN <<MarkerLine("--header--"), DataLine(shapeToks)>> ELSE <<>>)
    \o (IF "affine" \in present
        THEN <<MarkerLine("--affine--")>> \o Chunk(affineToks, lay.affinePerLine)
        ELSE <<>>)
    \o (IF "voxel" \in present
        THEN <<MarkerLine("--voxel--")>> \o Chunk(voxelToks, lay.voxelPerLine)
        ELSE <<>>)
    \o (IF lay.finalNewline THEN <<DataLine(<<>>)>> ELSE <<>>)

AllSections == {"header", "affine", "voxel"}

EncodeA(vol, lay) ==
    FormAText(NumToks(vol.shape), NumToks(vol.affine), NumToks(vol.samples),
              AllSections, lay)

Layouts ==
    [affinePerLine : {4, 16}, voxelPerLine : {1, 2, 8}, finalNewline : BOOLEAN]

EncodeB(vol) ==
    LET d == vol.shape[1]
        h == vol.shape[2]
        w == vol.shape[3]
    IN [shape |-> Arr([i \in 1..3 |-> Num(vol.shape[i])]),
        affine |-> Arr([r \in 1..4 |->
                        Arr([c \in 1..4 |-> Num(vol.affine[4 * (r - 1) + c])])]),
        voxel_data |-> Arr([z \in 1..d |-> Arr([y \in 1..h |-> Arr([x \in 1..w |->
                        Num(SampleAt(vol, z - 1, y - 1, x - 1))])])])]

NotRun == [voxel |-> <<>>, dims |-> <<>>, affine |-> <<>>, done |-> FALSE]
Returned(r) == [voxel |-> r.voxel, dims |-> r.dims, affine |-> r.affine, done |-> TRUE]

\* Form-A texts of vol that lack a section, miscount one or hold a word
Defects ==
    {"none", "noHeader", "noAffine", "noVoxel", "affine15", "voxelShort",
     "voxelLong", "wordHeader", "wordAffine", "wordVoxel"}

DropLast(s) == SubSeq(s, 1, Len(s) - 1)
WordFirst(s) == <<WordTok>> \o Tail(s)

DefectiveText(vol, defect, lay) ==
    LET sh == NumToks(vol.shape)
        af == NumToks(vol.affine)
        vx == NumToks(vol.samples)
    IN CASE defect = "noHeader" -> FormAText(sh, af, vx, {"affine", "voxel"}, lay)
         [] defect = "noAffine" -> FormAText(sh, af, vx, {"header", "voxel"}, lay)
         [] defect = "noVoxel" -> FormAText(sh, af, vx, {"header", "affine"}, lay)
         [] defect = "affine15" -> FormAText(sh, DropLast(af), vx, AllSections, lay)
         [] defect = "voxelShort" -> FormAText(sh, af, DropLast(vx), AllSections, lay)
         [] defect = "voxelLong" -> FormAText(sh, af, vx \o <<NumTok(7)>>, AllSections, lay)
         [] defect = "wordHeader" -> FormAText(WordFirst(sh), af, vx, AllSections, lay)
         [] defect = "wordAffine" -> FormAText(sh, WordFirst(af), vx, AllSections, lay)
         [] defect = "wordVoxel" -> FormAText(sh, af, WordFirst(vx), AllSections, lay)
         [] OTHER -> FormAText(sh, af, vx, AllSections, lay)

\* what a well-formed Form-A text is: the three sections, 3 header numbers,
\* 16 affine numbers, as many voxel numbers as the header's product
SectionTokens(lines, name) ==
    LET p == ParseLines(lines, 1, "", <<>>, <<>>, <<>>)
    IN CASE name = "--header--" -> p.shape
         [] name = "--affine--" -> p.affineValues
         [] OTHER -> MapNumber(TrimSplit(p.voxelLine))

HasSection(lines, name) == \E i \in 1..Len(lines) : lines[i].marker = name

WellFormed(lines) ==
    LET sh == SectionTokens(lines, "--header--")
        af == SectionTokens(lines, "--affine--")
        vx == SectionTokens(lines, "--voxel--")
    IN /\ \A n \in {"--header--", "--affine--", "--voxel--"} : HasSection(lines, n)
       /\ Len(sh) = 3 /\ Len(af) = 16
       /\ \A x \in Range(sh) \cup Range(af) \cup Range(vx) : IsNum(x)
       /\ Len(vx) = sh[1].v * sh[2].v * sh[3].v

----------------------------------------------------------------------------
(* gl-matrix and the camera of main / render.                              *)

\* an application of a library function, kept unevaluated
App(f, args) == [f |-> f, args |-> args]
\* element i (from 0) of a matrix kept as an application
Elt(m, i) == [t |-> "elt", v |-> i, of |-> m]
Null == [f |-> "null", args |-> <<>>]

\* the determinant mat4.invert computes from a[0..15]
Det(a) ==
    LET b00 == a[1] * a[6] - a[2] * a[5]
        b01 == a[1] * a[7] - a[3] * a[5]
        b02 == a[1] * a[8] - a[4] * a[5]
        b03 == a[2] * a[7] - a[3] * a[6]
        b04 == a[2] * a[8] - a[4] * a[6]
        b05 == a[3] * a[8] - a[4] * a[7]
        b06 == a[9] * a[14] - a[10] * a[13]
        b07 == a[9] * a[15] - a[11] * a[13]
        b08 == a[9] * a[16] - a[12] * a[13]
        b09 == a[10] * a[15] - a[11] * a[14]
        b10 == a[10] * a[16] - a[12] * a[14]
        b11 == a[11] * a[16] - a[12] * a[15]
    IN b00 * b11 - b01 * b10 + b02 * b09 + b03 * b08 - b04 * b07 + b05 * b06

\* mat4.invert(mat4.create(), affine): null when the determinant is 0 or NaN
\* (an element that is missing or NaN makes it NaN)
InvertAffine(affine) ==
    IF \/ Len(affine) < 16
       \/ \E i \in 1..16 : ~IsNum(affine[i])
    THEN Null
    ELSE IF Det([i \in 1..16 |-> affine[i].v]) = 0
         THEN Null
         ELSE App("invert", <<affine>>)

\* the elements of a 4x4 matrix, as set() copies them
Elements(m) == [i \in 1..16 |-> Elt(m, i - 1)]

\* Math.PI, in micro-radians
PiMicro == 3141593
\* one radian, in micro-radians
Micro == 1000 * 1000

InitTheta == PiMicro \div 2
InitPhi == PiMicro \div 2
InitRadius == 2500
InitTarget == <<500, 500, 500>>

\* Math.max(0.05, Math.min(Math.PI - 0.05, phi))
Min(a, b) == IF a < b THEN a ELSE b
Max(a, b) == IF a > b THEN a ELSE b
PhiMin == 50000
ClampPhiUpperOnly(phi) == Min(PiMicro - PhiMin, phi)
ClampPhi(phi) == Max(PhiMin, Min(PiMicro - PhiMin, phi))

\* Math.max(0.5, Math.min(10.0, radius))
RadiusMin == 500
RadiusMax == 10000
ClampRadius(r) == Max(RadiusMin, Min(RadiusMax, r))

\* the camera as render reads it
Camera == [theta |-> cameraTheta, phi |-> cameraPhi, radius |-> cameraRadius,
           target |-> cameraTarget]

\* lines 195-205 of render: the eye and the matrices
CameraMatrices(cam, size) ==
    LET aspect == App("/", <<size[1], size[2]>>)
        proj == App("perspective", <<App("/", <<PiMicro, 4>>), aspect, 100, 100 * 1000>>)
        sinPhi == App("sin", <<cam.phi>>)
        cx == App("+", <<cam.target[1],
                  App("*", <<cam.radius, sinPhi, App("cos", <<cam.theta>>)>>)>>)
        cy == App("+", <<cam.target[2],
                  App("*", <<cam.radius, App("cos", <<cam.phi>>)>>)>>)
        cz == App("+", <<cam.target[3],
                  App("*", <<cam.radius, sinPhi, App("sin", <<cam.theta>>)>>)>>)
        eye == <<cx, cy, cz>>
        view == App("lookAt", <<eye, cam.target, <<0, 1, 0>>>>)
        viewProj == App("multiply", <<proj, view>>)
    IN [eye |-> eye, proj |-> proj, view |-> view, viewProj |-> viewProj,
        invViewProj |-> App("invert", <<viewProj>>)]

\* (a render that turns the camera a little with every frame drawn)
DeriveMatricesSpinning(cam, size) ==
    CameraMatrices([cam EXCEPT !.theta = @ + 1000 * frames], size)

\* what render derives from the camera it reads
DeriveMatrices(cam, size) == CameraMatrices(cam, size)

----------------------------------------------------------------------------
(* The uniform buffer: what render writes and what the shader reads.       *)

\* uniformBufferSize = 64 + 64 + 32, in bytes
UniformBufferSize == 64 + 64 + 32

\* typedArray.set(src, offset); a null source is a TypeError
SetAt(arr, src, offset) ==
    [i \in 1..Len(arr) |->
        IF offset < i /\ i <= offset + Len(src) THEN src[i - offset] ELSE arr[i]]

\* (a packing that pads volumeDims to 16 bytes: the thresholds one float on)
PackUniformsPadded(invAffine, invViewProj, dims, low, high) ==
    LET u0 == [i \in 1..(UniformBufferSize \div 4) |-> Num(0)]
        u1 == SetAt(u0, Elements(invAffine), 0)
        u2 == SetAt(u1, Elements(invViewProj), 16)
        u3 == SetAt(u2, dims, 32)
        u4 == [u3 EXCEPT ![36 + 1] = low]
    IN [u4 EXCEPT ![37 + 1] = high]

\* the Float32Array render fills (lines 213-218)
PackUniforms(invAffine, invViewProj, dims, low, high) ==
    LET u0 == [i \in 1..(UniformBufferSize \div 4) |-> Num(0)]
        u1 == SetAt(u0, Elements(invAffine), 0)
        u2 == SetAt(u1, Elements(invViewProj), 16)
        u3 == SetAt(u2, dims, 32)
        u4 == [u3 EXCEPT ![35 + 1] = low]
    IN [u4 EXCEPT ![36 + 1] = high]

\* struct Uniforms of the shader: each member's alignment and size in bytes
\* (mat4x4<f32>: 16, 64; vec3f: 16, 12; f32: 4, 4)
UniformsStruct ==
    << [name |-> "invAffine", align |-> 16, size |-> 64],
       [name |-> "invViewProj", align |-> 16, size |-> 64],
       [name |-> "volumeDims", align |-> 16, size |-> 12],
       [name |-> "thresholdLow", align |-> 4, size |-> 4],
       [name |-> "thresholdHigh", align |-> 4, size |-> 4] >>

RoundUp(k, n) == ((n + k - 1) \div k) * k

\* the byte offset WGSL gives member i of a struct
RECURSIVE MemberOffset(_, _)
MemberOffset(members, i) ==
    IF i = 1 THEN 0
    ELSE RoundUp(members[i].align,
                 MemberOffset(members, i - 1) + members[i - 1].size)

\* the byte size WGSL gives a struct
StructSize(members) ==
    LET n == Len(members)
        maxAlign == CHOOSE a \in {members[i].align : i \in 1..n} :
                        \A j \in 1..n : members[j].align <= a
    IN RoundUp(maxAlign, MemberOffset(members, n) + members[n].size)

MemberIndex(members, name) == CHOOSE i \in 1..Len(members) : members[i].name = name

OffsetOf(name) == MemberOffset(UniformsStruct, MemberIndex(UniformsStruct, name))

\* what the shader reads as uniforms.<name> from a buffer of floats
ShaderRead(buffer, name) ==
    LET m == UniformsStruct[MemberIndex(UniformsStruct, name)]
    IN SubSeq(buffer, OffsetOf(name) \div 4 + 1, (OffsetOf(name) + m.size) \div 4)

----------------------------------------------------------------------------
(* main and render of src/main/code.js.                                    *)

NoTexture == [size |-> <<>>, data |-> <<>>, bytesPerRow |-> 0, rowsPerImage |-> 0]
\* the texel that device.queue.writeTexture(..., {bytesPerRow, rowsPerImage},
\* size) of lines 128-133 leaves at (x, y, z) of the r32float texture: the
\* float at byte z * rowsPerImage * bytesPerRow + y * bytesPerRow + 4 * x of
\* the data; a coordinate outside the size names no texel
NoTexel == [t |-> "notexel", v |-> 0]
TexelAt(tex, x, y, z) ==
    IF /\ Len(tex.size) = 3
       /\ \A i \in 1..3 : IsNum(tex.size[i])
       /\ x < tex.size[1].v /\ y < tex.size[2].v /\ z < tex.size[3].v
    THEN LET k == ((z * tex.rowsPerImage + y) * tex.bytesPerRow) \div 4 + x + 1
         IN IF k <= Len(tex.data) THEN tex.data[k] ELSE NoTexel
    ELSE NoTexel

NoFrame == [cam |-> Null, size |-> <<0, 0>>, eye |-> <<>>, proj |-> Null, view |-> Null, viewProj |-> Null,
            invViewProj |-> Null, invAffine |-> Null,
            low |-> Num(0), high |-> Num(0)]

\* device.createTexture({size: dims, ...}) throws a TypeError when an extent
\* is no unsigned integer (undefined, NaN, negative)
CreateTextureThrows(dims) == \E i \in 1..Len(dims) : ~IsNum(dims[i]) \/ dims[i].v < 0

\* (a render that uploads the volume again with every frame)
RenderUploading(cam, size, dims, affine, low, high) ==
    LET m == DeriveMatrices(cam, size)
        invAffine == InvertAffine(affine)
    IN [threw |-> FALSE,
        frame |-> [cam |-> cam, size |-> size, eye |-> m.eye, proj |-> m.proj,
                   view |-> m.view, viewProj |-> m.viewProj,
                   invViewProj |-> m.invViewProj,
                   invAffine |-> invAffine, low |-> low, high |-> high],
        uniformData |-> PackUniforms(invAffine, m.invViewProj, dims, low, high),
        ops |-> <<"writeTexture", "writeBuffer", "submit">>]

\* one execution of render for the camera cam, the slider values low and
\* high: it throws at uniformData.set(invAffine, 0) when invAffine is null,
\* before anything is written or drawn
Render(cam, size, dims, affine, low, high) ==
    LET m == DeriveMatrices(cam, size)
        invAffine == InvertAffine(affine)
    IN IF invAffine = Null
       THEN [threw |-> TRUE, frame |-> NoFrame, uniformData |-> <<>>, ops |-> <<>>]
       ELSE [threw |-> FALSE,
             frame |-> [cam |-> cam, size |-> size, eye |-> m.eye, proj |-> m.proj, view |-> m.view,
                        viewProj |-> m.viewProj, invViewProj |-> m.invViewProj,
                        invAffine |-> invAffine, low |-> low, high |-> high],
             uniformData |-> PackUniforms(invAffine, m.invViewProj, dims, low, high),
             ops |-> <<"writeBuffer", "submit">>]

\* the values parseFloat reads off the two sliders
Lows == {Num(0), Num(25)}
Highs == {Num(100)}
CanvasSizes == {<<800, 600>>, <<600, 600>>}

\* parseVoxelTxt(url): the fetch may fail; otherwise the text is parsed
ParseVoxelTxt ==
    /\ pc = "fetching"
    /\ \E ok \in BOOLEAN :
          IF ok
          THEN /\ parsed' = Returned(parseVoxelTxt(text))
               /\ pc' = "parsed"
          ELSE /\ pc' = "aborted"
               /\ UNCHANGED parsed
    /\ UNCHANGED <<text, canvasSize, texture, queue, uniformBuffer, derived,
                   frames, rafPending, listening>>
    /\ UNCHANGED <<cameraVars, ingestVars, kernelVars>>

\* main, lines 111-119: the canvas is sized, adapter and device are awaited
MainAcquire ==
    /\ pc = "parsed"
    /\ \E size \in CanvasSizes, ok \in BOOLEAN :
          /\ canvasSize' = size
          /\ pc' = IF ok THEN "device" ELSE "aborted"
    /\ UNCHANGED <<text, parsed, texture, queue, uniformBuffer, derived,
                   frames, rafPending, listening>>
    /\ UNCHANGED <<cameraVars, ingestVars, kernelVars>>

InitCamera ==
    [theta |-> InitTheta, phi |-> InitPhi, radius |-> InitRadius, target |-> InitTarget]

\* main, lines 121-239, for the slider values of its first frame: the state
\* it leaves behind
Setup(p, size, low, high) ==
    IF CreateTextureThrows(p.dims)
    THEN [pc |-> "aborted", texture |-> NoTexture, queue |-> <<>>,
          uniformBuffer |-> <<>>, derived |-> NoFrame, frames |-> 0,
          rafPending |-> FALSE, listening |-> FALSE]
    ELSE LET r == Render(InitCamera, size, p.dims, p.affine, low, high)
         IN [pc |-> IF r.threw THEN "aborted" ELSE "running",
             texture |-> [size |-> p.dims, data |-> p.voxel,
                          bytesPerRow |-> p.dims[1].v * 4,
                          rowsPerImage |-> p.dims[2].v],
             queue |-> <<"writeTexture">> \o r.ops,
             uniformBuffer |-> r.uniformData,
             derived |-> r.frame,
             frames |-> IF r.threw THEN 0 ELSE 1,
             rafPending |-> ~r.threw,
             listening |-> TRUE]

MainSetup ==
    /\ pc = "device"
    /\ \E low \in Lows, high \in Highs :
          LET s == Setup(parsed, canvasSize, low, high)
          IN /\ pc' = s.pc
             /\ texture' = s.texture
             /\ queue' = s.queue
             /\ uniformBuffer' = s.uniformBuffer
             /\ derived' = s.derived
             /\ frames' = s.frames
             /\ rafPending' = s.rafPending
             /\ listening' = s.listening
    /\ cameraTheta' = InitTheta
    /\ cameraPhi' = InitPhi
    /\ cameraRadius' = InitRadius
    /\ cameraTarget' = InitTarget
    /\ dragging' = FALSE
    /\ lastX' = 0
    /\ lastY' = 0
    /\ UNCHANGED <<text, canvasSize, parsed>>
    /\ UNCHANGED <<ingestVars, kernelVars>>

\* render, called back by requestAnimationFrame
RenderFrame ==
    /\ pc = "running"
    /\ rafPending
    /\ frames < MaxFrames
    /\ \E low \in Lows, high \in Highs :
          LET r == Render(Camera, canvasSize, parsed.dims, parsed.affine, low, high)
          IN /\ pc' = IF r.threw THEN "aborted" ELSE pc
             /\ rafPending' = ~r.threw
             /\ frames' = IF r.threw THEN frames ELSE frames + 1
             /\ queue' = queue \o r.ops
             /\ uniformBuffer' = IF r.threw THEN uniformBuffer ELSE r.uniformData
             /\ derived' = IF r.threw THEN derived ELSE r.frame
    /\ UNCHANGED <<text, canvasSize, parsed, texture, listening>>
    /\ UNCHANGED <<cameraVars, ingestVars, kernelVars>>

----------------------------------------------------------------------------
(* The canvas listeners (code.js 172-192, part_000 165-185).               *)

\* mousedown at (x, y)
PointerDown(x, y) ==
    /\ listening
    /\ dragging' = TRUE
    /\ lastX' = x
    /\ lastY' = y
    /\ UNCHANGED <<cameraTheta, cameraPhi, cameraRadius, cameraTarget>>
    /\ UNCHANGED <<sessionVars, ingestVars, kernelVars>>

\* mouseup
PointerUp ==
    /\ listening
    /\ dragging' = FALSE
    /\ UNCHANGED <<cameraTheta, cameraPhi, cameraRadius, cameraTarget, lastX, lastY>>
    /\ UNCHANGED <<sessionVars, ingestVars, kernelVars>>

\* the azimuth is followed within ThetaSpan radians of its first value
ThetaInSpan(theta) ==
    /\ theta - InitTheta <= ThetaSpan * Micro
    /\ InitTheta - theta <= ThetaSpan * Micro

\* (a mousemove handler without the early return)
PointerMoveAlways(x, y) ==
    /\ listening
    /\ ThetaInSpan(cameraTheta - (x - lastX) * 5000)
    /\ lastX' = x
    /\ lastY' = y
    /\ cameraTheta' = cameraTheta - (x - lastX) * 5000
    /\ cameraPhi' = ClampPhi(cameraPhi - (y - lastY) * 5000)
    /\ UNCHANGED <<cameraRadius, cameraTarget, dragging>>
    /\ UNCHANGED <<sessionVars, ingestVars, kernelVars>>

\* mousemove to (x, y); 0.005 rad per pixel is 5000 micro-radians
PointerMove(x, y) ==
    /\ listening
    /\ dragging => ThetaInSpan(cameraTheta - (x - lastX) * 5000)
    /\ IF ~dragging
       THEN UNCHANGED cameraVars
       ELSE LET dx == x - lastX
                dy == y - lastY
            IN /\ lastX' = x
               /\ lastY' = y
               /\ cameraTheta' = cameraTheta - dx * 5000
               /\ cameraPhi' = ClampPhi(cameraPhi - dy * 5000)
               /\ UNCHANGED <<cameraRadius, cameraTarget, dragging>>
    /\ UNCHANGED <<sessionVars, ingestVars, kernelVars>>

\* wheel with deltaY: radius *= 1 + deltaY * 0.001, then the clamp
Wheel(deltaY) ==
    /\ listening
    /\ cameraRadius' = ClampRadius((cameraRadius * (1000 + deltaY)) \div 1000)
    /\ UNCHANGED <<cameraTheta, cameraPhi, cameraTarget, dragging, lastX, lastY>>
    /\ UNCHANGED <<sessionVars, ingestVars, kernelVars>>


----------------------------------------------------------------------------
(* The fragment shaders.  World positions are in units of 1/10000, ray     *)
(* directions in tenths, t in thousandths; the elements of invAffine are   *)
(* in tenths, so voxel positions are in units of 1/100000.  Densities and  *)
(* thresholds are in thousandths.  The loop variable t is followed         *)
(* exactly (the shader adds stepSize in f32).                              *)

\* 1.0 as a world coordinate and as a voxel coordinate
WorldOne == 10 * 1000
VoxelOne == 10 * WorldOne

\* code.js fsMain: maxDistance = 2.0 and stepSize = 0.005, in thousandths
MaxDistance == 2000
StepSize == 5
\* part_000 fsMain: t < 2.0 and step = 0.01, in thousandths
SphereMaxDistance == 2000
SphereStep == 10
\* part_000: the texture is size^3 texels, and the shader scales p by 64.0
SphereSize == 64
SphereScale == 64

\* in.rayOrigin + t * in.rayDir
WorldPos(r, t) == [i \in 1..3 |-> r.origin[i] + t * r.dir[i]]

\* (uniforms.invAffine * vec4f(worldPos, 1.0)).xyz; the 16 floats of the
\* buffer are the matrix's columns
VoxelPos(m, w) ==
    [i \in 1..3 |-> m[i] * w[1] + m[4 + i] * w[2] + m[8 + i] * w[3]
                    + m[12 + i] * WorldOne]

\* all(p >= vec3f(0.0)) && all(p <= vec3f(1.0)), with 1.0 given as one
InUnitCubeAnyAxis(p, one) == \E i \in 1..3 : 0 <= p[i] /\ p[i] <= one
InUnitCube(p, one) == \A i \in 1..3 : 0 <= p[i] /\ p[i] <= one

\* voxelPos * (uniforms.volumeDims - vec3f(1.0)), in voxel units
TexCoord(voxelPos, dims) == [i \in 1..3 |-> voxelPos[i] * (dims[i] - 1)]

\* all(texCoord >= vec3f(0.0)) && all(texCoord <= volumeDims - vec3f(1.0))
InTexture(texCoord, dims) ==
    \A i \in 1..3 : 0 <= texCoord[i] /\ texCoord[i] <= (dims[i] - 1) * VoxelOne

\* vec3u(v): the conversion truncates
Vec3u(v, one) == [i \in 1..3 |-> v[i] \div one]

\* smoothstep(low, high, x)
Smoothstep(low, high, x) ==
    LET t == Max(0, Min(1000, ((x - low) * 1000) \div (high - low)))
    IN (t * t * (3000 - 2 * t)) \div (1000 * 1000)

\* the density the main kernel's texture holds at texel c
Density(dims, c) == 250 * (1 + ((c[1] + dims[1] * (c[2] + dims[2] * c[3])) % 4))

\* the largest r with r * r <= n
RECURSIVE IsqrtIn(_, _, _)
IsqrtIn(n, lo, hi) ==
    IF lo >= hi THEN lo
    ELSE LET mid == (lo + hi + 1) \div 2
         IN IF mid * mid <= n THEN IsqrtIn(n, mid, hi) ELSE IsqrtIn(n, lo, mid - 1)

Isqrt(n) == IsqrtIn(n, 0, 46340)

\* generateSphereVolume(size) at texel (x, y, z): 1 - dist / radius within
\* the radius size / 3 of the centre size / 2, else 0; in thousandths
SphereDensity(size, c) ==
    LET dx == 2 * c[1] - size
        dy == 2 * c[2] - size
        dz == 2 * c[3] - size
        d2 == dx * dx + dy * dy + dz * dz          \* (2 dist)^2
    IN IF 9 * d2 < 4 * size * size
       THEN 1000 - (15 * Isqrt(d2 * 10000)) \div size
       ELSE 0

\* what textureLoad may return at c in a texture of extent size whose
\* texels are given by tex: out of bounds it is 0 or a texel within bounds
Clamped(c, size) == [i \in 1..3 |-> Max(0, Min(size[i] - 1, c[i]))]
InBounds(c, size) == \A i \in 1..3 : 0 <= c[i] /\ c[i] <= size[i] - 1

\* one iteration of the loop of code.js fsMain at t
MainStep(r, u, t) ==
    LET voxelPos == VoxelPos(u.invAffine, WorldPos(r, t))
        texCoord == TexCoord(voxelPos, u.volumeDims)
        c == Vec3u(texCoord, VoxelOne)
    IN IF InUnitCube(voxelPos, VoxelOne) /\ InTexture(texCoord, u.volumeDims)
       THEN LET d == Density(u.volumeDims, c)
            IN {[pos |-> voxelPos, one |-> VoxelOne, fetched |-> TRUE, texel |-> c,
                 size |-> u.volumeDims,
                 added |-> d * Smoothstep(u.thresholdLow, u.thresholdHigh, d)]}
       ELSE {[pos |-> voxelPos, one |-> VoxelOne, fetched |-> FALSE, texel |-> <<0, 0, 0>>,
              size |-> u.volumeDims, added |-> 0]}

\* one iteration of the loop of part_000 fsMain at t
SphereStepAt(r, t) ==
    LET p == WorldPos(r, t)
        c == Vec3u([i \in 1..3 |-> p[i] * SphereScale], WorldOne)
        size == <<SphereSize, SphereSize, SphereSize>>
    IN IF InUnitCube(p, WorldOne)
       THEN {[pos |-> p, one |-> WorldOne, fetched |-> TRUE, texel |-> c, size |-> size,
              added |-> d * 50] :
                d \in IF InBounds(c, size)
                      THEN {SphereDensity(SphereSize, c)}
                      ELSE {0, SphereDensity(SphereSize, Clamped(c, size))}}
       ELSE {[pos |-> p, one |-> WorldOne, fetched |-> FALSE, texel |-> <<0, 0, 0>>,
              size |-> size, added |-> 0]}

\* for (var t = 0.0; t < maxDistance; t += stepSize) { ... }: one iteration
March ==
    /\ kernel = "main"
    /\ stepIdx * StepSize < MaxDistance
    /\ \E st \in MainStep(ray, uni, stepIdx * StepSize) :
          /\ lastStep' = st
          /\ sum' = sum + st.added
    /\ stepIdx' = stepIdx + 1
    /\ UNCHANGED <<kernel, ray, uni>>
    /\ UNCHANGED <<sessionVars, cameraVars, ingestVars>>

SphereMarch ==
    /\ kernel = "sphere"
    /\ stepIdx * SphereStep < SphereMaxDistance
    /\ \E st \in SphereStepAt(ray, stepIdx * SphereStep) :
          /\ lastStep' = st
          /\ sum' = sum + st.added
    /\ stepIdx' = stepIdx + 1
    /\ UNCHANGED <<kernel, ray, uni>>
    /\ UNCHANGED <<sessionVars, cameraVars, ingestVars>>

----------------------------------------------------------------------------
(* Specifications.                                                         *)

NoVolume == [shape |-> <<>>, affine |-> <<>>, samples |-> <<>>]
NoLayout == [affinePerLine |-> 0, voxelPerLine |-> 0, finalNewline |-> FALSE]
NoRay == [origin |-> <<>>, dir |-> <<>>]
NoUniforms == [invAffine |-> <<>>, volumeDims |-> <<>>,
               thresholdLow |-> 0, thresholdHigh |-> 0]
NoStep == [pos |-> <<>>, one |-> 0, fetched |-> FALSE, texel |-> <<>>,
           size |-> <<>>, added |-> 0]

\* the page of src/main/code.js is not loaded
SessionOff ==
    /\ pc = "off" /\ text = <<>> /\ canvasSize = <<0, 0>> /\ parsed = NotRun
    /\ texture = NoTexture /\ queue = <<>> /\ uniformBuffer = <<>>
    /\ derived = NoFrame /\ frames = 0 /\ rafPending = FALSE
    /\ listening = FALSE

\* the camera variables as main declares them (lines 164-170)
CameraInit ==
    /\ cameraTheta = InitTheta /\ cameraPhi = InitPhi
    /\ cameraRadius = InitRadius /\ cameraTarget = InitTarget
    /\ dragging = FALSE /\ lastX = 0 /\ lastY = 0

IngestOff == volume = NoVolume /\ layout = NoLayout /\ outA = NotRun /\ outB = NotRun

KernelOff ==
    /\ kernel = "none" /\ ray = NoRay /\ uni = NoUniforms
    /\ stepIdx = 0 /\ sum = 0 /\ lastStep = NoStep

\* ---- a session of the renderer: the text is fetched and parsed, main
\* sets the device up and draws, frames and events follow ----

SessionVolume == MakeVolume(2, 1, 2, ScaledAffine)
SessionLayout == [affinePerLine |-> 4, voxelPerLine |-> 2, finalNewline |-> TRUE]
SessionTexts ==
    {DefectiveText(SessionVolume, d, SessionLayout) : d \in Defects}
    \cup {EncodeA(MakeVolume(1, 2, 1, SingularAffine), SessionLayout)}

\* the pointer positions and wheel deltas of a session
SessionXs == {0}
SessionYs == {0, 400}
SessionDeltaYs == {1000}

Init ==
    /\ pc = "fetching"
    /\ text \in SessionTexts
    /\ canvasSize = <<0, 0>> /\ parsed = NotRun
    /\ texture = NoTexture /\ queue = <<>> /\ uniformBuffer = <<>>
    /\ derived = NoFrame /\ frames = 0 /\ rafPending = FALSE
    /\ listening = FALSE
    /\ CameraInit /\ IngestOff /\ KernelOff

Next ==
    \/ ParseVoxelTxt
    \/ MainAcquire
    \/ MainSetup
    \/ RenderFrame
    \/ \E x \in SessionXs, y \in SessionYs : PointerDown(x, y)
    \/ PointerUp
    \/ \E x \in SessionXs, y \in SessionYs : PointerMove(x, y)
    \/ \E deltaY \in SessionDeltaYs : Wheel(deltaY)

Spec == Init /\ [][Next]_vars

\* ---- the interaction controller on its own, from the state main leaves
\* behind for a well-formed text (render reads the camera and never
\* writes it) ----

CameraXs == {0, 200, 600}
CameraYs == {0, 100, 700}
CameraDeltaYs == {-3000, -500, 0, 1000}

InitController ==
    /\ text = EncodeA(SessionVolume, SessionLayout)
    /\ canvasSize = <<800, 600>>
    /\ parsed = Returned(parseVoxelTxt(text))
    /\ \E low \in {Num(0)}, high \in Highs :
          LET s == Setup(parsed, canvasSize, low, high)
          IN /\ pc = s.pc /\ texture = s.texture /\ queue = s.queue
             /\ uniformBuffer = s.uniformBuffer /\ derived = s.derived
             /\ frames = s.frames /\ rafPending = s.rafPending
             /\ listening = s.listening
    /\ CameraInit /\ IngestOff /\ KernelOff

NextController ==
    \/ \E x \in CameraXs, y \in CameraYs : PointerDown(x, y)
    \/ PointerUp
    \/ \E x \in CameraXs, y \in CameraYs : PointerMove(x, y)
    \/ \E deltaY \in CameraDeltaYs : Wheel(deltaY)

SpecController == InitController /\ [][NextController]_vars

\* ---- the two ingestion routines on the two encodings of one volume ----

IngestA ==
    /\ ~outA.done
    /\ outA' = Returned(parseVoxelTxt(EncodeA(volume, layout)))
    /\ UNCHANGED <<volume, layout, outB>>
    /\ UNCHANGED <<sessionVars, cameraVars, kernelVars>>

IngestB ==
    /\ ~outB.done
    /\ outB' = Returned(loadVolumeJSON(EncodeB(volume)))
    /\ UNCHANGED <<volume, layout, outA>>
    /\ UNCHANGED <<sessionVars, cameraVars, kernelVars>>

InitIngest ==
    /\ volume \in Volumes
    /\ layout \in Layouts
    /\ outA = NotRun /\ outB = NotRun
    /\ SessionOff /\ CameraInit /\ KernelOff

NextIngest == IngestA \/ IngestB

SpecIngest == InitIngest /\ [][NextIngest]_vars

\* ---- one invocation of a fragment shader: the rays, the uniforms ----

KernelRays ==
    {[origin |-> <<5000, 5000, -5000>>, dir |-> <<0, 0, 10>>],
     [origin |-> <<10000, 5000, -5000>>, dir |-> <<0, 0, 10>>],
     [origin |-> <<0, 0, 0>>, dir |-> <<6, 8, 0>>],
     [origin |-> <<5000, 5000, 15000>>, dir |-> <<0, 0, -10>>],
     [origin |-> <<20000, 20000, 20000>>, dir |-> <<0, 0, 10>>]}

\* invAffine as the buffer holds it (columns), in tenths: the identity, a
\* scaling by 2 with an offset of -0.5, a turn of x into y
KernelAffines ==
    {<<10, 0, 0, 0,  0, 10, 0, 0,  0, 0, 10, 0,  0, 0, 0, 10>>,
     <<20, 0, 0, 0,  0, 20, 0, 0,  0, 0, 20, 0,  -5, -5, -5, 10>>,
     <<0, 10, 0, 0,  -10, 0, 0, 0,  0, 0, 10, 0,  10, 0, 0, 10>>}

KernelDims == {<<2, 2, 2>>, <<3, 2, 1>>}
KernelWindows == {<<0, 1000>>, <<250, 750>>}

InitKernel ==
    /\ kernel \in {"main", "sphere"}
    /\ ray \in KernelRays
    /\ IF kernel = "main"
       THEN uni \in {[invAffine |-> a, volumeDims |-> d,
                      thresholdLow |-> w[1], thresholdHigh |-> w[2]] :
                        a \in KernelAffines, d \in KernelDims, w \in KernelWindows}
       ELSE uni = NoUniforms
    /\ stepIdx = 0 /\ sum = 0 /\ lastStep = NoStep
    /\ SessionOff /\ CameraInit /\ IngestOff

NextKernel == March \/ SphereMarch

SpecKernel == InitKernel /\ [][NextKernel]_vars

----------------------------------------------------------------------------
(* The claims.                                                             *)

\* C1 (SpecController): whatever pointer and wheel events arrive, phi stays
\* within [0.05, pi - 0.05] and the radius within [0.5, 10].
CameraClamps ==
    /\ PhiMin <= cameraPhi /\ cameraPhi <= PiMicro - PhiMin
    /\ RadiusMin <= cameraRadius /\ cameraRadius <= RadiusMax

\* a drag took phi down to its lower clamp and the wheel the radius up to
\* its upper clamp
CameraClampsWitness ==
    /\ dragging /\ cameraPhi = PhiMin /\ cameraRadius = RadiusMax
    /\ cameraTheta # InitTheta

\* C2 (SpecIngest): for a header or shape [d, h, w], either routine returns
\* dims = (w, h, d).
DimsAreWidthHeightDepth ==
    LET whd == <<Num(volume.shape[3]), Num(volume.shape[2]), Num(volume.shape[1])>>
    IN /\ outA.done => outA.dims = whd
       /\ outB.done => outB.dims = whd

\* C3 (Spec): for a malformed Form-A text, ingestion ends in an error (it
\* never resolves with a volume), writeTexture is never called and no frame
\* is drawn.
MalformedNeverUploads ==
    ~WellFormed(text) =>
        /\ ~parsed.done
        /\ "writeTexture" \notin Range(queue)
        /\ frames = 0

UniformLayout ==
    frames >= 1 =>
        /\ Len(uniformBuffer) * 4 = 160
        /\ StructSize(UniformsStruct) = Len(uniformBuffer) * 4
        /\ OffsetOf("invAffine") = 0
        /\ OffsetOf("invViewProj") = 64
        /\ OffsetOf("volumeDims") = 128
        /\ OffsetOf("thresholdLow") = 140
        /\ OffsetOf("thresholdHigh") = 144
        /\ SubSeq(uniformBuffer, 1, 16) = Elements(derived.invAffine)
        /\ SubSeq(uniformBuffer, 17, 32) = Elements(derived.invViewProj)
        /\ SubSeq(uniformBuffer, 33, 35) = parsed.dims
        /\ uniformBuffer[36] = derived.low
        /\ uniformBuffer[37] = derived.high
        /\ ShaderRead(uniformBuffer, "invAffine") = Elements(derived.invAffine)
        /\ ShaderRead(uniformBuffer, "invViewProj") = Elements(derived.invViewProj)
        /\ ShaderRead(uniformBuffer, "volumeDims") = parsed.dims
        /\ ShaderRead(uniformBuffer, "thresholdLow") = <<derived.low>>
        /\ ShaderRead(uniformBuffer, "thresholdHigh") = <<derived.high>>

\* a later frame was packed with a low threshold that is not the padding's 0
UniformLayoutWitness ==
    /\ frames = 2 /\ derived.low = Num(25) /\ derived.high = Num(100)
    /\ parsed.dims = <<Num(1), Num(2), Num(2)>>

\* C6 (SpecKernel): an iteration whose sample point has a coordinate outside
\* [0, 1] in voxel-normalized space leaves sum as it was.
OutsideUnitCube(p, one) == \E i \in 1..3 : p[i] < 0 \/ p[i] > one

OutsideAddsNothing ==
    [][(stepIdx' = stepIdx + 1 /\ OutsideUnitCube(lastStep'.pos, lastStep'.one))
          => sum' = sum]_vars

\* a ray that gathered density inside the volume has left it
OutsideAddsNothingWitness ==
    /\ stepIdx > 0 /\ sum > 0
    /\ OutsideUnitCube(lastStep.pos, lastStep.one)
    /\ \E i \in 1..3 : 0 <= lastStep.pos[i] /\ lastStep.pos[i] <= lastStep.one

\* C7 (Spec): render leaves theta, phi, radius, target and the drag state
\* alone, and a render that reads the camera and canvas size the last render
\* read derives the same eye and the same matrices.
RenderIdempotent ==
    [][(frames' = frames + 1) =>
          /\ UNCHANGED cameraVars
          /\ derived'.cam = Camera /\ derived'.size = canvasSize
          /\ (frames >= 1 /\ derived.cam = Camera /\ derived.size = canvasSize) =>
                /\ derived'.eye = derived.eye
                /\ derived'.view = derived.view
                /\ derived'.proj = derived.proj
                /\ derived'.viewProj = derived.viewProj
                /\ derived'.invViewProj = derived.invViewProj]_vars

\* two frames were drawn from the camera as main declares it
RenderIdempotentWitness ==
    /\ frames = 2
    /\ derived.cam = InitCamera
    /\ Camera = InitCamera

\* C8 (SpecController): the controller starts Idle; PointerDown leads to
\* Dragging with the anchor at the event; PointerUp leads to Idle;
\* PointerMove and Wheel keep the drag state; PointerMove while Dragging
\* takes 0.005 dx from theta and 0.005 dy from phi (clamped) and moves the
\* anchor to the event; PointerMove while Idle changes nothing.
ControllerStep ==
    /\ \A x \in CameraXs, y \in CameraYs :
          PointerDown(x, y) => dragging' /\ lastX' = x /\ lastY' = y
    /\ PointerUp => ~dragging'
    /\ \A deltaY \in CameraDeltaYs : Wheel(deltaY) => dragging' = dragging
    /\ \A x \in CameraXs, y \in CameraYs :
          PointerMove(x, y) =>
            /\ dragging' = dragging
            /\ dragging =>
                  /\ cameraTheta' = cameraTheta - 5000 * (x - lastX)
                  /\ cameraPhi' = Max(PhiMin, Min(PiMicro - PhiMin,
                                                  cameraPhi - 5000 * (y - lastY)))
                  /\ lastX' = x /\ lastY' = y
            /\ ~dragging =>
                  UNCHANGED <<cameraTheta, cameraPhi, cameraRadius, lastX, lastY>>

ControllerMachine == ~dragging /\ [][ControllerStep]_vars

\* a drag has turned the camera and has ended
ControllerMachineWitness ==
    /\ ~dragging /\ lastX = 200 /\ lastY = 100
    /\ cameraTheta = InitTheta - 200 * 5000
    /\ cameraPhi = InitPhi - 100 * 5000

\* C9 (Spec): writeTexture is issued at most once, as the first call on the
\* queue, after ingestion has completed; every session that draws has
\* issued it before its first draw, and no frame or listener issues it again.
Uploads == Cardinality({i \in 1..Len(queue) : queue[i] = "writeTexture"})

UploadOnce ==
    /\ Uploads <= 1
    /\ queue # <<>> => (queue[1] = "writeTexture" /\ parsed.done)
    /\ (frames >= 1 \/ pc = "running") => Uploads = 1

\* two frames were drawn and the pointer and the wheel were used
UploadOnceWitness ==
    /\ frames = 2 /\ dragging /\ cameraRadius # InitRadius
    /\ Len(queue) = 5

\* C10 (SpecKernel): in both kernels, the texel coordinates of every fetch
\* lie in [0, size - 1] on each axis of the texture.
FetchInBounds ==
    lastStep.fetched => InBounds(lastStep.texel, lastStep.size)

\* C11 (Spec): once the volume of shape <<d, h, w>> is ingested and uploaded,
\* the texel at (x, y, z), for x < w, y < h, z < d, is the source sample at
\* depth z, height y, width x (as a float32).
TexelLayout ==
    (pc = "running" /\ text = EncodeA(SessionVolume, SessionLayout)) =>
        \A z \in 0..(SessionVolume.shape[1] - 1),
           y \in 0..(SessionVolume.shape[2] - 1),
           x \in 0..(SessionVolume.shape[3] - 1) :
            TexelAt(texture, x, y, z)
                = ToFloat32(Num(SampleAt(SessionVolume, z, y, x)))

====
